---- MODULE Spec2Model ----
(***************************************************************************)
(* Conway's Game of Life on the GPU (src/src/index.js): two cell-state     *)
(* storage buffers used in ping-pong fashion, a timer-driven updateGrid    *)
(* that records a compute pass and a render pass into one command buffer,  *)
(* and the device queue that executes the submitted passes.                *)
(***************************************************************************)
EXTENDS Integers, Sequences, FiniteSets, TLC

\* ------------------------------------------------------------------ bounds
\* The source runs a 256 x 256 grid in 8 x 8 workgroups for ever; the model
\* runs a MaxGrid x MaxGrid grid in MaxTile x MaxTile workgroups for MaxStep
\* ticks, from seeds holding at most MaxLive live cells, all of them within
\* one cell of the origin of the torus (a window that straddles all four
\* edges of the grid).
MaxGrid == 4
MaxTile == 3
MaxStep == 3
MaxLive == 3

\* ------------------------------------------------------- program constants
GRID_SIZE == MaxGrid
WORKGROUP_SIZE == MaxTile

VARIABLES
    pc,                \* "start" | "running" (setInterval armed) | "halted"
    error,             \* message of the last uncaught exception, "" if none
    step,              \* let step
    cellStateArray,    \* the host array the seed is drawn into
    cellStateStorage,  \* contents of the storage buffers A (0) and B (1)
    written,           \* per storage buffer, the cells written since creation
    uniformBuffer,     \* contents of the grid uniform buffer
    vertexBuffer,      \* contents of the vertex buffer
    submitted,         \* the command buffers handed to device.queue, in order
    begun,             \* number of submitted passes the device has begun
    active,            \* the passes the device is executing
    canvas             \* what the last finished render pass drew

vars == <<pc, error, step, cellStateArray, cellStateStorage, written,
          uniformBuffer, vertexBuffer, submitted, begun, active, canvas>>

\* ------------------------------------------------------------- host data
Cells == 0 .. (GRID_SIZE * GRID_SIZE - 1)

Blank == [c \in Cells |-> 0]

\* vertices, in tenths
vertices == <<-8, -8, 8, -8, 8, 8, -8, -8, 8, 8, -8, 8>>

uniformArrayNarrow == <<GRID_SIZE - 1, GRID_SIZE>>

uniformArray == <<GRID_SIZE, GRID_SIZE>>

Col(c) == c % GRID_SIZE

Row(c) == c \div GRID_SIZE

Near(i, j) == i = j \/ (i + 1) % GRID_SIZE = j \/ (j + 1) % GRID_SIZE = i

SeedWindow == {c \in Cells : Near(Col(c), 0) /\ Near(Row(c), 0)}

\* Math.random() > 0.6 ? 1 : 0 for every cell
Seeds ==
    {[c \in Cells |-> IF c \in live THEN 1 ELSE 0] :
        live \in {l \in SUBSET SeedWindow : Cardinality(l) <= MaxLive}}

\* binding -> shader stages that see it, and the access it grants
bindGroupLayout ==
    [b0 |-> [visibility |-> {"VERTEX", "COMPUTE"}, type |-> "uniform"],
     b1 |-> [visibility |-> {"VERTEX", "COMPUTE"}, type |-> "read-only-storage"],
     b2 |-> [visibility |-> {"COMPUTE"}, type |-> "storage"]]

bindGroupsAliased(i) ==
    IF i = 0 THEN [b0 |-> "uniformBuffer", b1 |-> 0, b2 |-> 1]
             ELSE [b0 |-> "uniformBuffer", b1 |-> 1, b2 |-> 1]

bindGroupsSame(i) == [b0 |-> "uniformBuffer", b1 |-> 0, b2 |-> 1]

\* bindGroups[i]: binding 1 and 2 name the storage buffer by its index
bindGroups(i) ==
    IF i = 0 THEN [b0 |-> "uniformBuffer", b1 |-> 0, b2 |-> 1]
             ELSE [b0 |-> "uniformBuffer", b1 |-> 1, b2 |-> 0]

workgroupCountFloor == GRID_SIZE \div WORKGROUP_SIZE

\* Math.ceil(GRID_SIZE / WORKGROUP_SIZE)
workgroupCount == (GRID_SIZE + WORKGROUP_SIZE - 1) \div WORKGROUP_SIZE

NextStepSkip(s) == s + 2

\* step++
NextStep(s) == s + 1

EncodeRenderFirst(computePass, pass) == <<pass, computePass>>

\* the encoder keeps the passes in the order they were begun
Encode(computePass, pass) == <<computePass, pass>>

RenderGroupStale(before, after) == bindGroups(before % 2)

\* the render pass binds bindGroups[step % 2] after step++
RenderGroup(before, after) == bindGroups(after % 2)

\* ------------------------------------------------- compute shader (Life)
cellIndex(x, y, grid) == (y % grid[2]) * grid[1] + (x % grid[1])

cellActive(x, y, cellStateIn, grid) == cellStateIn[cellIndex(x, y, grid)]

activeNeighbors(x, y, cellStateIn, grid) ==
    LET l == x + grid[1] - 1
        r == x + 1
        u == y + grid[2] - 1
        d == y + 1
    IN  cellActive(r, d, cellStateIn, grid) + cellActive(r, y, cellStateIn, grid)
      + cellActive(r, u, cellStateIn, grid) + cellActive(x, u, cellStateIn, grid)
      + cellActive(l, u, cellStateIn, grid) + cellActive(l, y, cellStateIn, grid)
      + cellActive(l, d, cellStateIn, grid) + cellActive(x, d, cellStateIn, grid)

\* the value one invocation stores into cellStateOut[cellIndex(x, y)]
computeMain(x, y, cellStateIn, grid) ==
    LET n == activeNeighbors(x, y, cellStateIn, grid)
        alive == cellActive(x, y, cellStateIn, grid) = 1
    IN  IF alive /\ (n = 2 \/ n = 3) THEN 1
        ELSE IF ~alive /\ n = 3 THEN 1
        ELSE 0

\* cell c is cellIndex(x, y) of an invocation (x, y) of workgroup w that lies
\* inside the grid
Invoked(c, w, grid) ==
    /\ c < grid[1] * grid[2]
    /\ (c % grid[1]) \div WORKGROUP_SIZE = w[1]
    /\ (c \div grid[1]) \div WORKGROUP_SIZE = w[2]

\* dispatchWorkgroups(count, count)
Workgroups(count) == (0 .. (count - 1)) \X (0 .. (count - 1))

\* ----------------------------------------------------------- device queue
\* every command buffer holds the two passes of one updateGrid call
PassAt(t) == submitted[(t + 1) \div 2][((t - 1) % 2) + 1]

BatchOf(t) == (t + 1) \div 2

\* the storage buffer a pass reads (binding 1) and the one it may write
\* (binding 2, which only the compute stage sees)
ReadBuf(p) == p.bindGroup.b1

WriteBufs(p) ==
    IF (IF p.kind = "compute" THEN "COMPUTE" ELSE "VERTEX") \in bindGroupLayout.b2.visibility
    THEN {p.bindGroup.b2} ELSE {}

DeviceOverlaps == TRUE

\* the queue runs the submitted passes one after the other
DeviceIdle == active = {}

\* ------------------------------------------------------------------ Init
Init ==
    /\ pc = "start"
    /\ error = ""
    /\ step = 0
    /\ cellStateArray = Blank
    /\ cellStateStorage = [b \in 0 .. 1 |-> Blank]
    /\ written = [b \in 0 .. 1 |-> {}]
    /\ uniformBuffer = <<>>
    /\ vertexBuffer = <<>>
    /\ submitted = <<>>
    /\ begun = 0
    /\ active = {}
    /\ canvas = [batch |-> 0, buffer |-> 0, cells |-> Blank]

\* --------------------------------------------------------------- startup
\* if (!navigator.gpu) throw
ThrowNoGpu ==
    /\ pc = "start"
    /\ pc' = "halted"
    /\ error' = "WebGPU not supported on this browser."
    /\ UNCHANGED <<step, cellStateArray, cellStateStorage, written, uniformBuffer,
                   vertexBuffer, submitted, begun, active, canvas>>

\* if (!adapter) throw
ThrowNoAdapter ==
    /\ pc = "start"
    /\ pc' = "halted"
    /\ error' = "No appropriate GPUAdapter found."
    /\ UNCHANGED <<step, cellStateArray, cellStateStorage, written, uniformBuffer,
                   vertexBuffer, submitted, begun, active, canvas>>

\* the rest of the module body: buffers created and filled, bind groups made,
\* setInterval(updateGrid, UPDATE_INTERVAL)
Setup ==
    /\ pc = "start"
    /\ \E s \in Seeds :
        /\ cellStateArray' = s
        /\ cellStateStorage' = [b \in 0 .. 1 |-> IF b = 0 THEN s ELSE Blank]
    /\ written' = [b \in 0 .. 1 |-> IF b = 0 THEN Cells ELSE {}]
    /\ uniformBuffer' = uniformArray
    /\ vertexBuffer' = vertices
    /\ pc' = "running"
    /\ UNCHANGED <<error, step, submitted, begun, active, canvas>>

\* ------------------------------------------------------------ updateGrid
updateGrid ==
    /\ pc = "running"
    /\ step < MaxStep
    /\ LET computePass == [kind |-> "compute", bindGroup |-> bindGroups(step % 2),
                           count |-> workgroupCount]
           after == NextStep(step)
           pass == [kind |-> "render", bindGroup |-> RenderGroup(step, after),
                    count |-> GRID_SIZE * GRID_SIZE]
       IN  /\ step' = after
           /\ submitted' = Append(submitted, Encode(computePass, pass))
    /\ UNCHANGED <<pc, error, cellStateArray, cellStateStorage, written,
                   uniformBuffer, vertexBuffer, begun, active, canvas>>

\* ---------------------------------------------------------------- device
\* the device begins the next submitted pass
BeginPass ==
    /\ DeviceIdle
    /\ begun < 2 * Len(submitted)
    /\ begun' = begun + 1
    /\ LET p == PassAt(begun + 1)
       IN  active' = active \cup
               {[t |-> begun + 1,
                 pending |-> IF p.kind = "compute" THEN Workgroups(p.count) ELSE {},
                 src0 |-> cellStateStorage[ReadBuf(p)]]}
    /\ UNCHANGED <<pc, error, step, cellStateArray, cellStateStorage, written,
                   uniformBuffer, vertexBuffer, submitted, canvas>>

\* one workgroup of an executing compute pass runs computeMain for its cells
ExecWorkgroup ==
    \E a \in active : \E w \in a.pending :
        LET p == PassAt(a.t) IN
            /\ cellStateStorage' =
                [cellStateStorage EXCEPT ![p.bindGroup.b2] =
                    [c \in Cells |->
                        IF Invoked(c, w, uniformBuffer)
                        THEN computeMain(c % uniformBuffer[1], c \div uniformBuffer[1],
                                         cellStateStorage[p.bindGroup.b1], uniformBuffer)
                        ELSE @[c]]]
            /\ written' = [written EXCEPT ![p.bindGroup.b2] =
                               @ \cup {c \in Cells : Invoked(c, w, uniformBuffer)}]
            /\ active' = (active \ {a}) \cup {[a EXCEPT !.pending = @ \ {w}]}
            /\ UNCHANGED <<pc, error, step, cellStateArray, uniformBuffer,
                           vertexBuffer, submitted, begun, canvas>>

\* a pass with no work left ends; a render pass has then drawn one instance
\* per cell from the buffer bound at binding 1
EndPass ==
    \E a \in active :
        /\ a.pending = {}
        /\ active' = active \ {a}
        /\ canvas' = IF PassAt(a.t).kind = "render"
                     THEN [batch |-> BatchOf(a.t), buffer |-> ReadBuf(PassAt(a.t)),
                           cells |-> cellStateStorage[ReadBuf(PassAt(a.t))]]
                     ELSE canvas
        /\ UNCHANGED <<pc, error, step, cellStateArray, cellStateStorage, written,
                       uniformBuffer, vertexBuffer, submitted, begun>>

Next ==
    \/ ThrowNoGpu
    \/ ThrowNoAdapter
    \/ Setup
    \/ updateGrid
    \/ BeginPass
    \/ ExecWorkgroup
    \/ EndPass

Spec == Init /\ [][Next]_vars

\* a call made by updateGrid raises: the statements before it have run, the
\* rest of the callback has not, and setInterval keeps the callback armed
TickThrows ==
    /\ pc = "running"
    /\ step < MaxStep
    /\ \E at \in {"compute pass", "render pass", "submit"} :
        /\ error' = at
        /\ step' = IF at = "compute pass" THEN step ELSE NextStep(step)
    /\ UNCHANGED <<pc, cellStateArray, cellStateStorage, written, uniformBuffer,
                   vertexBuffer, submitted, begun, active, canvas>>

NextFail == Next \/ TickThrows

SpecFail == Init /\ [][NextFail]_vars

\* ------------------------------------------------------------- reference
\* Conway's rule on the torus, stated on sets of cells
NeighbourSets ==
    [c \in Cells |-> {d \in Cells \ {c} : Near(Col(c), Col(d)) /\ Near(Row(c), Row(d))}]

Neighbours(c) == NeighbourSets[c]

Rule(alive, n) ==
    IF alive = 1 THEN (IF n = 2 \/ n = 3 THEN 1 ELSE 0)
                 ELSE (IF n = 3 THEN 1 ELSE 0)

ConwayAt(g, c) == Rule(g[c], Cardinality({d \in Neighbours(c) : g[d] = 1}))

Conway(g) == [c \in Cells |-> ConwayAt(g, c)]

RECURSIVE Iter(_, _)
Iter(g, n) == IF n = 0 THEN g ELSE Conway(Iter(g, n - 1))

\* the n-th generation of the seed
Generation(n) == Iter(cellStateArray, n)

IsCompute(a) == PassAt(a.t).kind = "compute"

IsRender(a) == PassAt(a.t).kind = "render"

\* the compute pass of the k-th updateGrid call
ComputeOf(k) == submitted[k][CHOOSE i \in 1 .. 2 : submitted[k][i].kind = "compute"]

RenderOf(k) == submitted[k][CHOOSE i \in 1 .. 2 : submitted[k][i].kind = "render"]

Pair(k) == <<ComputeOf(k).bindGroup.b1, ComputeOf(k).bindGroup.b2>>

\* compute passes the device has begun and ended
ComputesEnded ==
    Cardinality({t \in 1 .. begun :
        PassAt(t).kind = "compute" /\ \A a \in active : a.t # t})

\* the cells of workgroup w
Tile(w) ==
    {c \in Cells : Col(c) \div WORKGROUP_SIZE = w[1] /\ Row(c) \div WORKGROUP_SIZE = w[2]}

\* ------------------------------------------------------------------- C1
\* C1: the k-th tick's compute pass reads buffer (k-1) % 2 and writes buffer
\* k % 2 (ticks counted from 1, so the first pair is (A,B)), and no two
\* consecutive ticks use the same (source, destination) pair.
C1_PairsAlternate ==
    \A k \in 1 .. Len(submitted) :
        /\ Pair(k) = <<(k - 1) % 2, k % 2>>
        /\ k > 1 => Pair(k) # Pair(k - 1)

C1_Witness ==
    /\ Len(submitted) >= 3
    /\ Pair(1) = <<0, 1>> /\ Pair(2) = <<1, 0>> /\ Pair(3) = <<0, 1>>

\* ------------------------------------------------------------------- C2
\* C2: every command buffer holds the compute pass first and the render pass
\* second; the render pass reads the buffer that compute pass writes and not
\* the one it reads, and writes no storage buffer; and while the render pass
\* executes, the buffer it reads holds the Life successor of that tick's
\* source buffer, the compute pass of the same command buffer having ended.
C2_RenderReadsDestination ==
    /\ \A k \in 1 .. Len(submitted) :
        /\ submitted[k][1].kind = "compute"
        /\ submitted[k][2].kind = "render"
        /\ ReadBuf(submitted[k][2]) = submitted[k][1].bindGroup.b2
        /\ ReadBuf(submitted[k][2]) # ReadBuf(submitted[k][1])
        /\ WriteBufs(submitted[k][2]) = {}
    /\ \A a \in active : IsRender(a) =>
        /\ a.t > 1 /\ BatchOf(a.t - 1) = BatchOf(a.t)
        /\ \A b \in active : b.t # a.t - 1
        /\ cellStateStorage[ReadBuf(PassAt(a.t))]
             = Conway(cellStateStorage[ReadBuf(ComputeOf(BatchOf(a.t)))])
    /\ canvas.batch >= 1 =>
        canvas.buffer = ComputeOf(canvas.batch).bindGroup.b2

C2_Witness ==
    /\ canvas.batch = 2
    /\ canvas.buffer = 0
    /\ canvas.cells # Blank
    /\ \E a \in active : IsRender(a) /\ BatchOf(a.t) = 3
          /\ cellStateStorage[1] # cellStateStorage[0]

\* ------------------------------------------------------------------- C3
ObservationPoint == pc = "running" /\ \A a \in active : ~IsCompute(a)

\* C3 as stated: whenever no compute pass is executing, the first tick not
\* yet run included, one buffer holds the last computed generation and the
\* other holds a fully written generation that precedes it.
C3_Original ==
    ObservationPoint =>
        \E b \in 0 .. 1 :
            /\ cellStateStorage[b] = Generation(ComputesEnded)
            /\ written[1 - b] = Cells
            /\ Conway(cellStateStorage[1 - b]) = cellStateStorage[b]

\* C3 as amended: whenever no compute pass is executing and n >= 1 compute
\* passes have ended, buffer n % 2 holds generation n and the other buffer
\* holds generation n - 1, both with every cell written; before the first
\* compute pass buffer A holds the seed and no cell of B has been written.
C3_BuffersHoldLastTwo ==
    ObservationPoint =>
        LET n == ComputesEnded
        IN  IF n = 0
            THEN /\ cellStateStorage[0] = Generation(0)
                 /\ written[0] = Cells
                 /\ written[1] = {}
            ELSE /\ cellStateStorage[(n + 1) % 2] = Generation(n - 1)
                 /\ cellStateStorage[n % 2] = Conway(cellStateStorage[(n + 1) % 2])
                 /\ written[0] = Cells /\ written[1] = Cells

C3_Witness ==
    /\ ObservationPoint
    /\ ComputesEnded = 2
    /\ Len(submitted) = 3
    /\ Generation(2) # Generation(1)
    /\ Generation(1) # Generation(0)

Left(x) == IF x = 0 THEN GRID_SIZE - 1 ELSE x - 1

Right(x) == IF x = GRID_SIZE - 1 THEN 0 ELSE x + 1

At(g, x, y) == g[y * GRID_SIZE + x]

WrappedCount(g, x, y) ==
      At(g, Left(x), Left(y)) + At(g, x, Left(y)) + At(g, Right(x), Left(y))
    + At(g, Left(x), y) + At(g, Right(x), y)
    + At(g, Left(x), Right(y)) + At(g, x, Right(y)) + At(g, Right(x), Right(y))

\* the count a grid with walls would give: cells beyond an edge count as dead
Inside(g, x, y) ==
    IF x >= 0 /\ x < GRID_SIZE /\ y >= 0 /\ y < GRID_SIZE THEN At(g, x, y) ELSE 0

WalledCount(g, x, y) ==
      Inside(g, x - 1, y - 1) + Inside(g, x, y - 1) + Inside(g, x + 1, y - 1)
    + Inside(g, x - 1, y) + Inside(g, x + 1, y)
    + Inside(g, x - 1, y + 1) + Inside(g, x, y + 1) + Inside(g, x + 1, y + 1)

OnBorder(x, y) == x = 0 \/ y = 0 \/ x = GRID_SIZE - 1 \/ y = GRID_SIZE - 1

\* C5: the shader's index of the cell left of column 0 is the cell in column
\* GRID_SIZE - 1 (and likewise above row 0), the cell at
\* (GRID_SIZE-1, GRID_SIZE-1) is among the eight cells counted for (0,0),
\* and after a compute pass every cell on the border of the grid holds the
\* rule applied to the count over its eight neighbours taken round the edges.
C5_ToroidalNeighbours ==
    pc = "running" =>
        /\ \A y \in 0 .. (GRID_SIZE - 1) :
            /\ cellIndex(0 + uniformBuffer[1] - 1, y, uniformBuffer)
                 = y * GRID_SIZE + (GRID_SIZE - 1)
            /\ cellIndex(y, 0 + uniformBuffer[2] - 1, uniformBuffer)
                 = (GRID_SIZE - 1) * GRID_SIZE + y
        /\ cellIndex(0 + uniformBuffer[1] - 1, 0 + uniformBuffer[2] - 1, uniformBuffer)
             = GRID_SIZE * GRID_SIZE - 1
        /\ \A a \in active : (IsCompute(a) /\ a.pending = {}) =>
            \A x \in 0 .. (GRID_SIZE - 1) : \A y \in 0 .. (GRID_SIZE - 1) :
                OnBorder(x, y) =>
                    At(cellStateStorage[PassAt(a.t).bindGroup.b2], x, y)
                      = Rule(At(a.src0, x, y), WrappedCount(a.src0, x, y))

C5_Witness ==
    \E a \in active :
        /\ IsCompute(a) /\ a.pending = {}
        /\ At(a.src0, GRID_SIZE - 1, GRID_SIZE - 1) = 1
        /\ At(cellStateStorage[PassAt(a.t).bindGroup.b2], 0, 0) = 1
        /\ Rule(At(a.src0, 0, 0), WalledCount(a.src0, 0, 0)) = 0

C7_FailureHalts ==
    [][/\ error # "" => (step' = step /\ submitted' = submitted)
       /\ step' = Len(submitted')]_vars

\* ------------------------------------------------------------------- C8
\* C8: once the buffers are set up, a step of the system changes neither the
\* grid uniform nor the vertex buffer, changes a storage buffer only if an
\* executing compute pass has it bound as destination and not as source, and
\* every submitted compute pass binds two different storage buffers.
C8_WritesOnlyDestination ==
    [][pc = "running" =>
        /\ uniformBuffer' = uniformBuffer
        /\ vertexBuffer' = vertexBuffer
        /\ cellStateArray' = cellStateArray
        /\ \A b \in 0 .. 1 :
            (cellStateStorage'[b] # cellStateStorage[b] \/ written'[b] # written[b]) =>
                \E a \in active :
                    /\ IsCompute(a)
                    /\ PassAt(a.t).bindGroup.b2 = b
                    /\ PassAt(a.t).bindGroup.b1 # b
        /\ \A k \in 1 .. Len(submitted') :
            \A i \in 1 .. 2 : submitted'[k][i].bindGroup.b1 # submitted'[k][i].bindGroup.b2
      ]_vars

C8_Witness ==
    \E a \in active :
        /\ IsCompute(a)
        /\ BatchOf(a.t) = 2
        /\ a.pending = {}
        /\ cellStateStorage[0] # cellStateArray
        /\ cellStateStorage[1] = a.src0
        /\ uniformBuffer = <<GRID_SIZE, GRID_SIZE>>
        /\ vertexBuffer = vertices

\* ------------------------------------------------------------------- C9
\* C9: every pass that is executing and reads buffer B finds every cell of B
\* written; the dispatched workgroups cover the grid, so B is fully written
\* once the first compute pass has run all its workgroups; and the first
\* pass to read B is the first tick's render pass.
C9_BWrittenBeforeRead ==
    /\ workgroupCount * WORKGROUP_SIZE >= GRID_SIZE
    /\ \A a \in active : ReadBuf(PassAt(a.t)) = 1 => (written[1] = Cells /\ a.t >= 2)
    /\ \A a \in active : (IsCompute(a) /\ a.t = 1 /\ a.pending = {}) => written[1] = Cells
    /\ begun >= 2 => written[1] = Cells

C9_Witness ==
    \E a \in active :
        /\ IsRender(a) /\ a.t = 2
        /\ ReadBuf(PassAt(a.t)) = 1
        /\ written[1] = Cells
        /\ cellStateStorage[1] # Blank

\* ------------------------------------------------------------------ C10
\* C10: the step counter equals the number of ticks run; while the render
\* pass of tick n executes, the buffer it reads holds the n-th Life iterate
\* of the seed and the other buffer the (n-1)-th; and the canvas shows the
\* n-th iterate once the render pass of tick n has ended.
C10_PingPongIsIteration ==
    /\ step = Len(submitted)
    /\ \A a \in active : IsRender(a) =>
        LET n == BatchOf(a.t)
            r == ReadBuf(PassAt(a.t))
        IN  /\ r = n % 2
            /\ cellStateStorage[1 - r] = Generation(n - 1)
            /\ cellStateStorage[r] = Conway(cellStateStorage[1 - r])
    /\ canvas.batch >= 1 => canvas.cells = Generation(canvas.batch)

C10_Witness ==
    /\ step = 3
    /\ canvas.batch = 3
    /\ canvas.cells = Generation(3)
    /\ Generation(3) # Generation(2)
    /\ Generation(2) # Generation(1)
    /\ Generation(1) # Generation(0)

====
